---------------------------- MODULE Spec2Model ----------------------------
(***************************************************************************)
(* State-machine model of scripts/generate_synthetic_logs.py: the session  *)
(* / query / click simulator `simulate_sessions` with the text helpers it  *)
(* calls, and of the determinism of a run.                                 *)
(*                                                                         *)
(* Text.  A Python str is a sequence of Unicode code points (naturals),    *)
(* so the regular-expression classes of the source are the same code-point *)
(* ranges here.                                                            *)
(*                                                                         *)
(* Randomness.  random.Random / numpy draws are an oracle: each draw is a  *)
(* choice from the support of its distribution.  A "draw space" D is a     *)
(* record giving, per draw site, the part of the support a specification   *)
(* explores; the actions take D as a parameter.                            *)
(*                                                                         *)
(* Environment.  uuid.uuid4() and datetime.now() are not driven by the     *)
(* seed.  uuid4 values are pairwise distinct within a run: the n-th value  *)
(* issued is entropy + n.  `rerun` is a second execution of the program    *)
(* with the same seed and counts (hence the same draws), possibly in a     *)
(* different environment.                                                  *)
(***************************************************************************)
EXTENDS Integers, Sequences, FiniteSets, TLC

Min(a, b) == IF a <= b THEN a ELSE b
Max(a, b) == IF a >= b THEN a ELSE b

(***************************************************************************)
(* Strings                                                                 *)
(***************************************************************************)

\* str.isspace / regex \s for a str pattern
IsSpace(c) ==
    \/ c \in 9..13
    \/ c \in 28..32
    \/ c \in {133, 160, 5760, 8232, 8233, 8239, 8287, 12288}
    \/ c \in 8192..8202

\* str.lower / str.upper of one character: the ASCII and the full-width
\* Latin letters; no other cased letter occurs in the strings of this program
LowerChar(c) == IF c \in 65..90 \/ c \in 65313..65338 THEN c + 32 ELSE c
UpperChar(c) == IF c \in 97..122 \/ c \in 65345..65370 THEN c - 32 ELSE c

Lower(s) == [i \in 1..Len(s) |-> LowerChar(s[i])]

\* str.strip()
Strip(s) ==
    LET ink == {i \in 1..Len(s) : ~IsSpace(s[i])}
    IN  IF ink = {} THEN << >>
        ELSE SubSeq(s, CHOOSE i \in ink : \A j \in ink : i <= j,
                       CHOOSE i \in ink : \A j \in ink : i >= j)

RECURSIVE CollapseFrom(_, _)
CollapseFrom(s, i) ==
    IF i > Len(s) THEN << >>
    ELSE IF ~IsSpace(s[i]) THEN <<s[i]>> \o CollapseFrom(s, i + 1)
    ELSE IF i > 1 /\ IsSpace(s[i - 1]) THEN CollapseFrom(s, i + 1)
    ELSE <<32>> \o CollapseFrom(s, i + 1)

\* re.sub(r"\s+", " ", s)
CollapseWhitespace(s) == CollapseFrom(s, 1)

RECURSIVE DoubleFrom(_, _)
DoubleFrom(s, i) ==
    IF i > Len(s) THEN << >>
    ELSE (IF s[i] = 32 THEN <<32, 32>> ELSE <<s[i]>>) \o DoubleFrom(s, i + 1)

\* s.replace(" ", "  ")
DoubleSpaces(s) == DoubleFrom(s, 1)

\* sub in s
Contains(s, sub) ==
    \E i \in 0..(Len(s) - Len(sub)) : \A j \in 1..Len(sub) : s[i + j] = sub[j]

KANJI_RE(c) == c \in 19968..40959
KANA_RE(c) == c \in 12352..12543
ROMAJI_RE(c) == c \in 65..90 \/ c \in 97..122
HALFWIDTH_KANA_RE(c) == c \in 65381..65439

has_kanji(s) == IF \E i \in 1..Len(s) : KANJI_RE(s[i]) THEN 1 ELSE 0
has_kana(s) == IF \E i \in 1..Len(s) : KANA_RE(s[i]) THEN 1 ELSE 0
has_romaji(s) == IF \E i \in 1..Len(s) : ROMAJI_RE(s[i]) THEN 1 ELSE 0
has_halfwidth_kana(s) == IF \E i \in 1..Len(s) : HALFWIDTH_KANA_RE(s[i]) THEN 1 ELSE 0

normalize_query(q) == Lower(CollapseWhitespace(Strip(q)))

\* seed entity 1 (lines 89-97): title 'First Love', artist '??????'
Seed1 ==
  [ title |-> <<70, 105, 114, 115, 116, 32, 76, 111, 118, 101>>,
    artist_or_show |-> <<<<23431, 22810, 30000, 12498, 12459, 12523>>>>,
    type |-> "track", vertical |-> "music",
    aliases |-> << <<23431, 22810, 30000, 12498, 12459, 12523, 32, 102, 105, 114, 115, 116, 32, 108, 111, 118, 101>>,
                   <<117, 116, 97, 100, 97, 32, 104, 105, 107, 97, 114, 117, 32, 102, 105, 114, 115, 116, 32, 108, 111, 118, 101>>,
                   <<12358, 12383, 12384, 12402, 12363, 12427, 32, 102, 105, 114, 115, 116, 32, 108, 111, 118, 101>> >> ]

\* seed entity 2 (lines 98-106): title '??', artist 'YOASOBI'
Seed2 ==
  [ title |-> <<24618, 29289>>,
    artist_or_show |-> <<<<89, 79, 65, 83, 79, 66, 73>>>>,
    type |-> "track", vertical |-> "music",
    aliases |-> << <<121, 111, 97, 115, 111, 98, 105, 32, 24618, 29289>>,
                   <<12424, 12358, 12354, 12381, 12403, 32, 12363, 12356, 12406, 12388>>,
                   <<24618, 29289, 32, 121, 111, 97, 115, 111, 98, 105>> >> ]

\* seed entity 3 (lines 107-115): title 'Pretender', artist 'Official??dism'
Seed3 ==
  [ title |-> <<80, 114, 101, 116, 101, 110, 100, 101, 114>>,
    artist_or_show |-> <<<<79, 102, 102, 105, 99, 105, 97, 108, 39661, 30007, 100, 105, 115, 109>>>>,
    type |-> "track", vertical |-> "music",
    aliases |-> << <<12498, 12466, 12480, 12531, 32, 112, 114, 101, 116, 101, 110, 100, 101, 114>>,
                   <<111, 102, 102, 105, 99, 105, 97, 108, 32, 104, 105, 103, 101, 32, 100, 97, 110, 100, 105, 115, 109, 32, 112, 114, 101, 116, 101, 110, 100, 101, 114>>,
                   <<39661, 30007, 32, 112, 114, 101, 116, 101, 110, 100, 101, 114>> >> ]

\* seed entity 4 (lines 116-124): title '??????', artist 'Mr.Children'
Seed4 ==
  [ title |-> <<32066, 12431, 12426, 12394, 12365, 26053>>,
    artist_or_show |-> <<<<77, 114, 46, 67, 104, 105, 108, 100, 114, 101, 110>>>>,
    type |-> "track", vertical |-> "music",
    aliases |-> << <<12511, 12473, 12481, 12523, 32, 32066, 12431, 12426, 12394, 12365, 26053>>,
                   <<109, 114, 46, 99, 104, 105, 108, 100, 114, 101, 110, 32, 32066, 12431, 12426, 12394, 12365, 26053>>,
                   <<32066, 12431, 12426, 12394, 12365, 26053, 32, 12511, 12473, 12481, 12523>> >> ]

\* seed entity 5 (lines 125-133): title '????', artist None
Seed5 ==
  [ title |-> <<39740, 28357, 12398, 20995>>,
    artist_or_show |-> << >>,
    type |-> "show", vertical |-> "tv",
    aliases |-> << <<12365, 12417, 12388, 12398, 12420, 12356, 12400>>,
                   <<100, 101, 109, 111, 110, 32, 115, 108, 97, 121, 101, 114>>,
                   <<39740, 28357>> >> ]

\* seed entity 6 (lines 134-142): title '????????', artist None
Seed6 ==
  [ title |-> <<21315, 12392, 21315, 23563, 12398, 31070, 38560, 12375>>,
    artist_or_show |-> << >>,
    type |-> "movie", vertical |-> "tv",
    aliases |-> << <<115, 112, 105, 114, 105, 116, 101, 100, 32, 97, 119, 97, 121>>,
                   <<21315, 12392, 21315, 23563>>,
                   <<12379, 12435, 12392, 12385, 12402, 12429>> >> ]

\* seed entity 7 (lines 143-151): title '????AI???????', artist '??????'
Seed7 ==
  [ title |-> <<26368, 26032, 22238, 65306, 65, 73, 12491, 12517, 12540, 12473, 12414, 12392, 12417>>,
    artist_or_show |-> <<<<12486, 12483, 12463, 12521, 12472, 12458>>>>,
    type |-> "episode", vertical |-> "podcast",
    aliases |-> << <<12486, 12483, 12463, 12521, 12472, 12458, 32, 26368, 26032, 22238>>,
                   <<97, 105, 32, 12491, 12517, 12540, 12473, 32, 12414, 12392, 12417>>,
                   <<116, 101, 99, 104, 32, 114, 97, 100, 105, 111, 32, 108, 97, 116, 101, 115, 116>> >> ]

\* seed entity 8 (lines 152-160): title '?10????????', artist '????????????'
Seed8 ==
  [ title |-> <<31532, 49, 48, 35441, 65306, 26368, 32066, 22238, 12398, 35023, 20596>>,
    artist_or_show |-> <<<<12489, 12521, 12510, 32771, 23519, 12509, 12483, 12489, 12461, 12515, 12473, 12488>>>>,
    type |-> "episode", vertical |-> "podcast",
    aliases |-> << <<26368, 32066, 22238, 32, 35023, 20596>>,
                   <<12489, 12521, 12510, 32, 32771, 23519, 32, 26368, 32066, 22238>>,
                   <<100, 114, 97, 109, 97, 32, 112, 111, 100, 99, 97, 115, 116, 32, 102, 105, 110, 97, 108, 101>> >> ]

\* seed entity 9 (lines 162-170): title 'HERO', artist None
Seed9 ==
  [ title |-> <<72, 69, 82, 79>>,
    artist_or_show |-> << >>,
    type |-> "movie", vertical |-> "tv",
    aliases |-> << <<104, 101, 114, 111, 32, 26144, 30011>>,
                   <<104, 101, 114, 111>>,
                   <<12498, 12540, 12525, 12540>> >> ]

\* seed entity 10 (lines 171-179): title 'Green', artist 'GReeeeN'
Seed10 ==
  [ title |-> <<71, 114, 101, 101, 110>>,
    artist_or_show |-> <<<<71, 82, 101, 101, 101, 101, 78>>>>,
    type |-> "track", vertical |-> "music",
    aliases |-> << <<12464, 12522, 12540, 12531>>,
                   <<103, 114, 101, 101, 101, 101, 110, 32, 103, 114, 101, 101, 110>>,
                   <<103, 114, 101, 101, 110, 32, 12464, 12522, 12540, 12531>> >> ]

SeedEntities == <<Seed1, Seed2, Seed3, Seed4, Seed5, Seed6, Seed7, Seed8, Seed9, Seed10>>

(***************************************************************************)
(* Query composition and perturbation.  Each function of the source that   *)
(* takes the generator is a function of the values it draws.               *)
(***************************************************************************)

\* rng.choice(patterns) over the three f-strings
Patterns(artist, title) == <<artist \o <<32>> \o title, title \o <<32>> \o artist, title>>

\* alias_coin: rng.random() < 0.55 (drawn only when the alias list is non-empty);
\* alias, pattern: the positions rng.choice picks
sample_query_from_entity(e_row, alias_coin, alias, pattern) ==
    IF e_row.aliases # << >> /\ alias_coin THEN e_row.aliases[alias]
    ELSE IF e_row.artist_or_show = << >> THEN e_row.title
    ELSE Patterns(e_row.artist_or_show[1], e_row.title)[pattern]

\* the queries sample_query_from_entity can return under draw space D
SampleQueries(e_row, D) ==
    IF e_row.aliases = << >>
    THEN {sample_query_from_entity(e_row, FALSE, 1, p) : p \in D.pattern}
    ELSE {sample_query_from_entity(e_row, c, a, p) :
            c \in D.alias_coin, a \in D.alias \cap (1..Len(e_row.aliases)), p \in D.pattern}

PunctNoise ==
    << <<65288, 27468, 35422, 65289>>,
       <<32, 20844, 24335>>,
       <<32, 12521, 12452, 12502>>,
       <<32, 23383, 24149>>,
       <<32, 21561, 12365, 26367, 12360>> >>

HalfwidthNoise == << <<65398, 65408, 65398, 65413>>, <<65411, 65405, 65412>> >>

\* the per-character coins rng.random() < 0.5 of the re-casing step, as the
\* function from position to outcome
CaseCoin(coins, i) ==
    CASE coins = "upper" -> TRUE
      [] coins = "lower" -> FALSE
      [] coins = "odd_upper" -> i % 2 = 1
      [] coins = "even_upper" -> i % 2 = 0

Recase(s, coins) ==
    [i \in 1..Len(s) |-> IF CaseCoin(coins, i) THEN UpperChar(s[i]) ELSE LowerChar(s[i])]

\* b: the draws of one call, [spaces, punct, punct_choice, recase, case_coins,
\* half, half_choice]
make_bad_variant(q, b) ==
    LET out1 == IF b.spaces THEN DoubleSpaces(CollapseWhitespace(q)) ELSE q
        out2 == IF b.punct THEN out1 \o PunctNoise[b.punct_choice] ELSE out1
        out3 == IF b.recase THEN Recase(out2, b.case_coins) ELSE out2
        out4 == IF b.half THEN out3 \o HalfwidthNoise[b.half_choice] ELSE out3
    IN  Strip(out4)

ClarifiersHalfwidth ==
    << <<32, 65398, 65404>>,
       <<32, 65404, 65389, 65408, 65394, 65398>>,
       <<32, 27468, 35422>>,
       <<32, 26368, 32066, 22238>>,
       <<32, 65400, 65409, 65402, 65424>> >>

\* line 330
Clarifiers ==
    << <<32, 27468, 35422>>,
       <<32, 20027, 38988, 27468>>,
       <<32, 26368, 26032>>,
       <<32, 26368, 32066, 22238>>,
       <<32, 21475, 12467, 12511>> >>

StaleQuery == << <<120>> >>

\* line 314: last_query_norm = None
NoQuery == << >>

ReformulateRawOnly(x, c) == [x EXCEPT !.q = x.q \o Clarifiers[c], !.reformulated = TRUE]

\* lines 319-333: what a turn can compose, given the theme entity, the
\* previous normalized query of the session (<< >> for None, else <<qn>>) and
\* the draw space: the raw query q, its normalization qn, and what the turn
\* did: perturbed (line 323 ran), half (the gate of line 265 fired), flipped
\* (the coin of line 328 was drawn), reformulated (lines 330-331 ran)
Reformulate(x, c) ==
    [x EXCEPT !.q = x.q \o Clarifiers[c], !.qn = normalize_query(x.q \o Clarifiers[c]),
              !.reformulated = TRUE]

\* lines 319-325: the query before the reformulation check
Composed(q, perturbed, half) ==
    [q |-> q, qn |-> normalize_query(q), perturbed |-> perturbed, half |-> half,
     flipped |-> FALSE, reformulated |-> FALSE]

TurnQueries(entity, last_query_norm, D) ==
    LET sampled == SampleQueries(entity, D)
        first == {Composed(q, FALSE, FALSE) : q \in {q \in sampled : FALSE \in D.bad_coin}}
                    \cup (IF TRUE \in D.bad_coin
                          THEN {Composed(make_bad_variant(q, b), TRUE, b.half) :
                                    q \in sampled, b \in D.bad}
                          ELSE {})
        flipped == {[x EXCEPT !.flipped = TRUE] : x \in first}
    IN  IF last_query_norm = << >> THEN first
        ELSE {x \in flipped : FALSE \in D.reformulate}
                \cup (IF TRUE \in D.reformulate
                      THEN {Reformulate(x, c) : x \in flipped, c \in D.clarifier}
                      ELSE {})

\* Unicode word character (regex \w) for the code points of this program
IsWordChar(c) ==
    \/ c \in 48..57 \/ c \in 65..90 \/ c \in 97..122 \/ c = 95
    \/ c \in 19968..40959
    \/ c \in 12353..12438 \/ c \in 12445..12447
    \/ c \in 12449..12538 \/ c \in 12540..12543
    \/ c \in 65296..65305 \/ c \in 65313..65338 \/ c \in 65345..65370
    \/ c \in 65382..65439

MatchAt(s, sub, i) == i + Len(sub) <= Len(s) /\ \A j \in 1..Len(sub) : LowerChar(s[i + j]) = sub[j]

\* re.search(r"\bhero\b|グリーン|green", q, re.IGNORECASE)
AmbiguousKeyword(q) ==
    \/ \E i \in 0..Len(q) :
          /\ MatchAt(q, <<104, 101, 114, 111>>, i)
          /\ (i = 0 \/ ~IsWordChar(q[i]))
          /\ (i + 4 = Len(q) \/ ~IsWordChar(q[i + 5]))
    \/ \E i \in 0..Len(q) : MatchAt(q, <<12464, 12522, 12540, 12531>>, i)
    \/ \E i \in 0..Len(q) : MatchAt(q, <<103, 114, 101, 101, 110>>, i)

\* "歌詞" in q or "主題歌" in q
LyricMarker(q) == Contains(q, <<27468, 35422>>) \/ Contains(q, <<20027, 38988, 27468>>)

\* rng.random() < 0.92, else rng.choice(["music", "podcast", "tv"])
choose_vertical(e_vertical, keep, other) == IF keep THEN e_vertical ELSE other

Verticals(e_vertical, D) ==
    {choose_vertical(e_vertical, keep, other) : keep \in D.keep_vertical, other \in D.other_vertical}

(***************************************************************************)
(* Identifiers and timestamps                                              *)
(***************************************************************************)

new_id_reused(prefix, entropy, n) == [prefix |-> prefix, hex |-> entropy]

\* new_id(prefix) for the n-th uuid4 of a run
new_id(prefix, entropy, n) == [prefix |-> prefix, hex |-> entropy + n]

UserPoolSize == 750

\* user_pool[j], issued after the n_catalog content ids
UserPool(entropy, n_catalog, j) == new_id("u", entropy, n_catalog + j)

\* datetime.isoformat() of a time given in seconds, at the fixed JST offset:
\* date, hour, minute, second, each of fixed width, so that the order of the
\* strings is the lexicographic order of these fields
isoformat(t) == <<t \div 86400, (t % 86400) \div 3600, (t % 3600) \div 60, t % 60>>

\* string order of two isoformat values
IsoBefore(a, b) ==
    \E j \in 1..4 : a[j] < b[j] /\ \A h \in 1..(j - 1) : a[h] = b[h]

(***************************************************************************)
(* The outcome model of a turn                                             *)
(***************************************************************************)

PZeroFlagsOnly(q) ==
    5 + (IF has_romaji(q) = 1 THEN 7 ELSE 0) + (IF has_halfwidth_kana(q) = 1 THEN 10 ELSE 0)

\* p_zero, in hundredths (lines 342-350)
PZero(q) ==
    5 + (IF has_romaji(q) = 1 THEN 7 ELSE 0)
      + (IF has_halfwidth_kana(q) = 1 THEN 10 ELSE 0)
      + (IF AmbiguousKeyword(q) THEN 3 ELSE 0)

PNoClickAnyCount(q, results_count) ==
    25 + (IF has_romaji(q) = 1 THEN 8 ELSE 0) + (IF LyricMarker(q) THEN 5 ELSE 0)

\* p_no_click, in hundredths (lines 386-392)
PNoClick(q, results_count) ==
    25 + (IF has_romaji(q) = 1 THEN 8 ELSE 0)
       - (IF results_count <= 1 THEN 5 ELSE 0)
       + (IF LyricMarker(q) THEN 5 ELSE 0)

\* rng.random() < p, the draw u given in hundredths (u = 37 stands for [0.37, 0.38))
Bernoulli(u, p) == u < p

NoResultsIgnored(results_count) == FALSE

\* line 381
NoResults(results_count) == results_count = 0

\* line 400
Penalized(q) == has_romaji(q) = 1 \/ has_halfwidth_kana(q) = 1

PenalizedRankUncapped(base_rank, penalty) == base_rank + penalty

\* line 401
PenalizedRank(base_rank, penalty) == Min(10, base_rank + penalty)

ClickRankUnclamped(base_rank, results_count) == Max(1, base_rank)

\* line 403
ClickRank(base_rank, results_count) == Max(1, Min(base_rank, results_count))

\* lines 360-376
SearchRow(event_id, t, user_id, session_id, device, q, qn, vertical, results_count) ==
    [ event_id |-> event_id, ts |-> isoformat(t), user_id |-> user_id,
      session_id |-> session_id, locale |-> "JP", device |-> device,
      query_raw |-> q, query_norm |-> qn, vertical |-> vertical,
      results_count |-> results_count,
      has_kanji |-> has_kanji(q), has_kana |-> has_kana(q),
      has_romaji |-> has_romaji(q), has_halfwidth_kana |-> has_halfwidth_kana(q),
      query_len |-> Len(q) ]

ClickTimeOfSearch(t, latency) == t

ClickTimeMinutes(t, latency) == t + 60 * latency

\* line 413
ClickTime(t, latency) == t + latency

ClickRowOfSession(click_id, t, latency, session_id, event_id, content_id, rank, dwell) ==
    [ click_id |-> click_id, ts |-> isoformat(ClickTime(t, latency)),
      session_id |-> session_id, event_id |-> session_id, content_id |-> content_id,
      rank |-> rank, dwell_sec |-> dwell ]

\* lines 411-419
ClickRow(click_id, t, latency, session_id, event_id, content_id, rank, dwell) ==
    [ click_id |-> click_id, ts |-> isoformat(ClickTime(t, latency)),
      session_id |-> session_id, event_id |-> event_id, content_id |-> content_id,
      rank |-> rank, dwell_sec |-> dwell ]

PlannedTurnsMax(searches_left, drawn_count) == Max(searches_left, drawn_count)

PlannedTurnsOneLess(searches_left, drawn_count) == Min(searches_left, Max(1, drawn_count - 1))

\* line 305
PlannedTurns(searches_left, drawn_count) == Min(searches_left, drawn_count)

DebitOne(searches_left, turns) == searches_left - 1

DebitExtra(searches_left, turns) == searches_left - turns - 1

\* line 306
Debit(searches_left, turns) == searches_left - turns

\* line 313
SessionClock(base, minutes) == base + 60 * minutes

(***************************************************************************)
(* Draw spaces                                                             *)
(***************************************************************************)

\* the support of every draw of a run, per draw site
FullDraws ==
    [ user           |-> 1..UserPoolSize,        \* rng.choice(user_pool), line 301
      device         |-> {"mobile", "desktop"},  \* choose_device, line 272
      turns          |-> {1, 2, 3, 4},           \* rng.choices, line 305
      entity         |-> Nat,                    \* catalog_internal.sample, line 309 (position)
      minutes        |-> 0..20159,               \* int(rng.random() * 60 * 24 * 14), line 313
      alias_coin     |-> BOOLEAN,                \* line 228
      alias          |-> Nat,                    \* rng.choice(aliases), line 229 (position)
      pattern        |-> {1, 2, 3},              \* rng.choice(patterns), line 242
      bad_coin       |-> BOOLEAN,                \* line 322
      bad            |-> [ spaces : BOOLEAN, punct : BOOLEAN, punct_choice : 1..5,
                           recase : BOOLEAN,
                           case_coins : {"upper", "lower", "odd_upper", "even_upper"},
                           half : BOOLEAN, half_choice : 1..2 ],   \* lines 252-266
      reformulate    |-> BOOLEAN,                \* line 328
      clarifier      |-> 1..5,                   \* line 330
      keep_vertical  |-> BOOLEAN,                \* line 277
      other_vertical |-> {"music", "podcast", "tv"},   \* line 279
      zero_u         |-> 0..99,                  \* rng.random(), line 352, in hundredths
      results_count  |-> {1, 3, 5, 10, 25},      \* line 358
      noclick_u      |-> 0..99,                  \* rng.random(), line 394, in hundredths
      base_rank      |-> {1, 2, 3, 4, 5, 7, 10}, \* line 399
      penalty        |-> 1..3,                   \* rng.randint(1, 3), line 401
      dwell          |-> {5, 12, 30, 60, 120, 240},    \* line 405
      content        |-> Nat,                    \* catalog_internal.sample, line 408 (position)
      latency        |-> 1..10,                  \* rng.randint(1, 10), line 413
      gap_zero       |-> 5..25,                  \* rng.randint(5, 25), line 382
      gap_noclick    |-> 8..35,                  \* rng.randint(8, 35), line 395
      gap_click      |-> 10..45 ]                \* rng.randint(10, 45), line 422

\* one call of make_bad_variant in which no gate fires
NoNoise ==
    [ spaces |-> FALSE, punct |-> FALSE, punct_choice |-> 1, recase |-> FALSE,
      case_coins |-> "lower", half |-> FALSE, half_choice |-> 1 ]

\* the smallest space in which every branch of a turn is still taken: the
\* base every specification widens
NarrowDraws ==
    [ user           |-> {1},
      device         |-> {"mobile"},
      turns          |-> {1, 2, 3, 4},
      entity         |-> {1},
      minutes        |-> {0},
      alias_coin     |-> {FALSE},
      alias          |-> {1},
      pattern        |-> {1},
      bad_coin       |-> {FALSE},
      bad            |-> {NoNoise},
      reformulate    |-> {FALSE},
      clarifier      |-> {1},
      keep_vertical  |-> {TRUE},
      other_vertical |-> {"music"},
      zero_u         |-> {0, 99},
      results_count  |-> {3},
      noclick_u      |-> {0, 99},
      base_rank      |-> {1},
      penalty        |-> {1},
      dwell          |-> {5},
      content        |-> {1},
      latency        |-> {1},
      gap_zero       |-> {5},
      gap_noclick    |-> {8},
      gap_click      |-> {10} ]

(***************************************************************************)
(* make_figures: paths and files                                           *)
(***************************************************************************)

REPORTS == "reports"

FIG_DIR == "reports/figures"

IN_DIR == "reports/metrics_outputs"

\* make_figures.py lines 82-85
required ==
    << "reports/metrics_outputs/m_by_script_flags.csv",
       "reports/metrics_outputs/m_top_bad_queries.csv" >>

\* the out paths of the two plots (lines 48, 72)
Figures ==
    << "reports/figures/zero_results_by_script_group.png",
       "reports/figures/top10_bad_queries_no_click_with_results.png" >>

Paths == {REPORTS, FIG_DIR, IN_DIR} \cup {required[j] : j \in 1..2} \cup {Figures[j] : j \in 1..2}

Parent(p) ==
    IF p \in {FIG_DIR, IN_DIR} THEN REPORTS
    ELSE IF p \in {required[j] : j \in 1..2} THEN IN_DIR
    ELSE FIG_DIR

\* what a path can hold when main starts: nothing, a directory, a metrics
\* csv with the columns the plots read, or a file of some other content
FileKinds(p) ==
    IF p \in {REPORTS, FIG_DIR, IN_DIR} THEN {"absent", "dir", "other"}
    ELSE IF p \in {required[j] : j \in 1..2} THEN {"absent", "metrics", "other"}
    ELSE {"absent", "other"}

\* the working directories main can start in: only a directory has entries
FileSystems ==
    { f \in [Paths -> {"absent", "dir", "metrics", "other"}] :
        \A p \in Paths :
            /\ f[p] \in FileKinds(p)
            /\ (p # REPORTS /\ f[p] # "absent") => f[Parent(p)] = "dir" }

\* Path.exists()
exists(f, p) == f[p] # "absent"

missing_first_only(f) == SelectSeq(SubSeq(required, 1, 1), LAMBDA p : ~exists(f, p))

\* line 86
missing(f) == SelectSeq(required, LAMBDA p : ~exists(f, p))

\* FIG_DIR.mkdir(parents=True, exist_ok=True): the exception it raises, or
\* "none"; exist_ok accepts only a directory at FIG_DIR
MkdirError(f) ==
    IF f[REPORTS] = "other" THEN "NotADirectoryError"
    ELSE IF f[FIG_DIR] = "other" THEN "FileExistsError"
    ELSE "none"

\* pd.read_csv(p) and the column accesses on its frame (lines 28-39, 55-61):
\* the exception they raise, or "none"
ReadError(f, p) ==
    IF f[p] = "absent" THEN "FileNotFoundError"
    ELSE IF f[p] = "other" THEN "KeyError"
    ELSE "none"

(***************************************************************************)
(* State                                                                   *)
(***************************************************************************)

VARIABLES
    n_searches,        \* the argument of simulate_sessions
    catalog_internal,  \* the catalog frame: content_id and the seed entity's columns
    entropy,           \* uuid4 of this run: the n-th value is entropy + n
    uuids,             \* how many uuid4 values the run has drawn
    base_ts,           \* line 295, in seconds
    searches_left,
    session_id, user_id, device, k, entity, t, last_query_norm, i,
    search_rows, click_rows,
    pc,                \* "while" (line 299), "for" (line 316), "returned", "raised"
    drawn_turns,       \* the session length line 305 drew, before the min
    drawn,             \* the draws of the latest turn
    rerun,             \* the same seed and counts, executed again
    fs,                \* make_figures: what each path of the working directory holds
    fig_pc,            \* make_figures.main: "mkdir" (line 79), "check" (86),
                       \* "plot_a" (90), "plot_b" (91), "print" (93), "done", "raised"
    fig_error          \* the exception make_figures.main raised, or "none"

simvars ==
    << n_searches, catalog_internal, entropy, uuids, base_ts, searches_left,
       session_id, user_id, device, k, entity, t, last_query_norm, i,
       search_rows, click_rows, pc, drawn_turns, drawn, rerun >>

figvars == <<fs, fig_pc, fig_error>>

vars == <<simvars, figvars>>

\* expand_catalog: picks[j] is the seed entity rng.choice returns for item j
CatalogOf(e, picks) ==
    [j \in 1..Len(picks) |->
        [ content_id |-> new_id("c", e, j),
          type |-> SeedEntities[picks[j]].type,
          title |-> SeedEntities[picks[j]].title,
          artist_or_show |-> SeedEntities[picks[j]].artist_or_show,
          vertical |-> SeedEntities[picks[j]].vertical,
          aliases |-> SeedEntities[picks[j]].aliases ]]

\* the draws of a turn: a u of 100, a base rank or a penalty of 0 is a draw
\* the turn did not make
DrawsOf(x, zu, nu, b, p) ==
    [reformulated |-> x.reformulated, flipped |-> x.flipped, perturbed |-> x.perturbed,
     half |-> x.half, zero_u |-> zu, noclick_u |-> nu, base_rank |-> b, penalty |-> p]

NoDraws == DrawsOf(Composed(<< >>, FALSE, FALSE), 100, 100, 0, 0)

\* the state at line 299, before the first session: picks is the catalog,
\* env the environment of the run, env2 that of the rerun.  The variables of
\* the loop bodies are unbound in the source until the first pass; here they
\* hold values no pass produces (uuid4 number 0 is never issued)
InitSim(max_searches, picksets, env, envs2) ==
    /\ n_searches \in 1..max_searches
    /\ \E picks \in picksets, env2 \in envs2 :
          /\ catalog_internal = CatalogOf(env.entropy, picks)
          /\ rerun = [ entropy |-> env2.entropy, base_ts |-> env2.now - 14 * 86400,
                       catalog_internal |-> CatalogOf(env2.entropy, picks),
                       session_id |-> new_id("s", env2.entropy, 0),
                       user_id |-> new_id("u", env2.entropy, 0),
                       t |-> env2.now - 14 * 86400,
                       search_rows |-> << >>, click_rows |-> << >> ]
          /\ uuids = Len(picks) + UserPoolSize
    /\ entropy = env.entropy
    /\ base_ts = env.now - 14 * 86400
    /\ searches_left = n_searches
    /\ session_id = new_id("s", env.entropy, 0)
    /\ user_id = new_id("u", env.entropy, 0)
    /\ device = "mobile"
    /\ k = 0
    /\ entity = 1
    /\ t = base_ts
    /\ last_query_norm = << >>
    /\ i = 0
    /\ search_rows = << >>
    /\ click_rows = << >>
    /\ pc = "while"
    /\ drawn_turns = 0
    /\ drawn = NoDraws

\* a run of the generator alone: make_figures is not started, in a working
\* directory without reports
InitWith(max_searches, picksets, env, envs2) ==
    /\ InitSim(max_searches, picksets, env, envs2)
    /\ fs = [p \in Paths |-> "absent"]
    /\ fig_pc = "mkdir"
    /\ fig_error = "none"

(***************************************************************************)
(* simulate_sessions                                                       *)
(***************************************************************************)

\* lines 299-314: one pass of the while loop up to the for loop
SessionStart(D) ==
    /\ pc = "while"
    /\ searches_left > 0
    /\ \E u \in D.user, dev \in D.device, dt \in D.turns,
          e \in D.entity \cap (1..Len(catalog_internal)), m \in D.minutes :
          LET turns == PlannedTurns(searches_left, dt)
          IN  /\ drawn_turns' = dt
              /\ session_id' = new_id("s", entropy, uuids + 1)
              /\ uuids' = uuids + 1
              /\ user_id' = UserPool(entropy, Len(catalog_internal), u)
              /\ device' = dev
              /\ k' = turns
              /\ searches_left' = Debit(searches_left, turns)
              /\ entity' = e
              /\ t' = SessionClock(base_ts, m)
              /\ last_query_norm' = NoQuery
              /\ i' = 0
              /\ pc' = IF turns > 0 THEN "for" ELSE "while"
              /\ rerun' = [rerun EXCEPT
                             !.session_id = new_id("s", rerun.entropy, uuids + 1),
                             !.user_id = UserPool(rerun.entropy, Len(catalog_internal), u),
                             !.t = SessionClock(rerun.base_ts, m)]
    /\ UNCHANGED <<n_searches, catalog_internal, entropy, base_ts, search_rows, click_rows, drawn>>
    /\ UNCHANGED figvars

\* the end of one pass of the for loop: the next i, or back to line 299
NextTurn ==
    /\ i' = i + 1
    /\ pc' = IF i + 1 < k THEN "for" ELSE "while"
    /\ UNCHANGED <<n_searches, catalog_internal, entropy, base_ts, searches_left,
                   session_id, user_id, device, k, entity, drawn_turns>>
    /\ UNCHANGED figvars

\* lines 377-383: the search row, then the idle gap
ZeroTurn(D, x, vertical, zu, results_count) ==
    \E gap \in D.gap_zero :
        /\ search_rows' = Append(search_rows,
              SearchRow(new_id("se", entropy, uuids + 1), t, user_id, session_id,
                        device, x.q, x.qn, vertical, results_count))
        /\ click_rows' = click_rows
        /\ uuids' = uuids + 1
        /\ t' = t + gap
        /\ drawn' = DrawsOf(x, zu, 100, 0, 0)
        /\ rerun' = [rerun EXCEPT
              !.search_rows = Append(@,
                  SearchRow(new_id("se", rerun.entropy, uuids + 1), rerun.t, rerun.user_id,
                            rerun.session_id, device, x.q, x.qn, vertical, results_count)),
              !.t = @ + gap]

\* lines 377, 385-396: the search row, then the no-click gap
NoClickTurn(D, x, vertical, zu, results_count, nu) ==
    \E gap \in D.gap_noclick :
        /\ search_rows' = Append(search_rows,
              SearchRow(new_id("se", entropy, uuids + 1), t, user_id, session_id,
                        device, x.q, x.qn, vertical, results_count))
        /\ click_rows' = click_rows
        /\ uuids' = uuids + 1
        /\ t' = t + gap
        /\ drawn' = DrawsOf(x, zu, nu, 0, 0)
        /\ rerun' = [rerun EXCEPT
              !.search_rows = Append(@,
                  SearchRow(new_id("se", rerun.entropy, uuids + 1), rerun.t, rerun.user_id,
                            rerun.session_id, device, x.q, x.qn, vertical, results_count)),
              !.t = @ + gap]

\* lines 377, 398-422: the search row, the click row, then the gap
ClickTurn(D, x, vertical, zu, results_count, nu) ==
    \E b \in D.base_rank, p \in (IF Penalized(x.q) THEN D.penalty ELSE {0}),
       dwell \in D.dwell, c \in D.content \cap (1..Len(catalog_internal)),
       latency \in D.latency, gap \in D.gap_click :
        LET base_rank == IF Penalized(x.q) THEN PenalizedRank(b, p) ELSE b
            rank == ClickRank(base_rank, results_count)
        IN  /\ search_rows' = Append(search_rows,
                  SearchRow(new_id("se", entropy, uuids + 1), t, user_id, session_id,
                            device, x.q, x.qn, vertical, results_count))
            /\ click_rows' = Append(click_rows,
                  ClickRow(new_id("ce", entropy, uuids + 2), t, latency, session_id,
                           new_id("se", entropy, uuids + 1),
                           catalog_internal[c].content_id, rank, dwell))
            /\ uuids' = uuids + 2
            /\ t' = t + gap
            /\ drawn' = DrawsOf(x, zu, nu, b, p)
            /\ rerun' = [rerun EXCEPT
                  !.search_rows = Append(@,
                      SearchRow(new_id("se", rerun.entropy, uuids + 1), rerun.t,
                                rerun.user_id, rerun.session_id, device, x.q, x.qn,
                                vertical, results_count)),
                  !.click_rows = Append(@,
                      ClickRow(new_id("ce", rerun.entropy, uuids + 2), rerun.t, latency,
                               rerun.session_id, new_id("se", rerun.entropy, uuids + 1),
                               rerun.catalog_internal[c].content_id, rank, dwell)),
                  !.t = @ + gap]

\* lines 354-358: 0 for a zero turn, else the weighted draw
ResultsCounts(zero, D) == IF zero THEN {0} ELSE D.results_count

\* lines 316-422: one pass of the for loop
Turn(D) ==
    /\ pc = "for"
    /\ i < k
    /\ \E x \in TurnQueries(catalog_internal[entity], last_query_norm, D),
          vertical \in Verticals(catalog_internal[entity].vertical, D),
          zu \in D.zero_u :
          /\ last_query_norm' = <<x.qn>>
          /\ \E results_count \in ResultsCounts(Bernoulli(zu, PZero(x.q)), D) :
                IF NoResults(results_count)
                THEN ZeroTurn(D, x, vertical, zu, results_count)
                ELSE \E nu \in D.noclick_u :
                        IF Bernoulli(nu, PNoClick(x.q, results_count))
                        THEN NoClickTurn(D, x, vertical, zu, results_count, nu)
                        ELSE ClickTurn(D, x, vertical, zu, results_count, nu)
    /\ NextTurn

\* the columns of pd.DataFrame(rows): those of the row dicts, none for no rows
Columns(rows) == IF rows = << >> THEN {} ELSE DOMAIN rows[1]

\* lines 424-433: the two frames and the integer conversion of their
\* columns; se[c] / ce[c] raises KeyError for a column the frame lacks
Finish ==
    /\ pc = "while"
    /\ ~(searches_left > 0)
    /\ pc' = IF /\ {"results_count", "has_kanji", "has_kana", "has_romaji",
                    "has_halfwidth_kana", "query_len"} \subseteq Columns(search_rows)
                /\ {"rank", "dwell_sec"} \subseteq Columns(click_rows)
             THEN "returned"
             ELSE "raised"
    /\ UNCHANGED <<n_searches, catalog_internal, entropy, uuids, base_ts, searches_left,
                   session_id, user_id, device, k, entity, t, last_query_norm, i,
                   search_rows, click_rows, drawn_turns, drawn, rerun>>
    /\ UNCHANGED figvars

(***************************************************************************)
(* make_figures.main                                                       *)
(***************************************************************************)

\* line 79
MakeFigDir ==
    /\ fig_pc = "mkdir"
    /\ IF MkdirError(fs) = "none"
       THEN /\ fs' = [fs EXCEPT ![REPORTS] = "dir", ![FIG_DIR] = "dir"]
            /\ fig_pc' = "check"
            /\ fig_error' = fig_error
       ELSE /\ fs' = fs
            /\ fig_pc' = "raised"
            /\ fig_error' = MkdirError(fs)
    /\ UNCHANGED simvars

\* lines 82-88
CheckRequired ==
    /\ fig_pc = "check"
    /\ IF missing(fs) # << >>
       THEN fig_pc' = "raised" /\ fig_error' = "FileNotFoundError"
       ELSE fig_pc' = "plot_a" /\ fig_error' = fig_error
    /\ UNCHANGED <<simvars, fs>>

\* one plot function: read the csv, draw, savefig (lines 27-51, 54-75)
Plot(at, next, j) ==
    /\ fig_pc = at
    /\ IF ReadError(fs, required[j]) = "none"
       THEN /\ fs' = [fs EXCEPT ![Figures[j]] = "figure"]
            /\ fig_pc' = next
            /\ fig_error' = fig_error
       ELSE /\ fs' = fs
            /\ fig_pc' = "raised"
            /\ fig_error' = ReadError(fs, required[j])
    /\ UNCHANGED simvars

\* line 90
plot_zero_results_by_script_flags == Plot("plot_a", "plot_b", 1)

\* line 91
plot_top_bad_queries_no_click == Plot("plot_b", "print", 2)

\* lines 93-95
PrintFigures ==
    /\ fig_pc = "print"
    /\ fig_pc' = "done"
    /\ UNCHANGED <<simvars, fs, fig_error>>

(***************************************************************************)
(* Specifications                                                          *)
(***************************************************************************)

MaxSearches == 5

Env == [now |-> 14 * 86400 + 86370, entropy |-> 0]

\* whole runs of up to MaxSearches searches: every session length and every
\* turn outcome
Init == InitWith(MaxSearches, {<<5>>}, Env, {Env})

Next == SessionStart(NarrowDraws) \/ Turn(NarrowDraws) \/ Finish

Spec == Init /\ [][Next]_vars

\* the same runs, up to MaxSearchesFair searches; the interpreter runs the
\* single thread on until it returns or raises
MaxSearchesFair == 3

InitFair == InitWith(MaxSearchesFair, {<<5>>}, Env, {Env})

FairSpec == InitFair /\ [][Next]_vars /\ WF_vars(Next)

\* click turns: every results_count, base rank and penalty, on a query with
\* romaji (seed entity 1), one with no flag (seed entity 5) and one with
\* half-width kana (seed entity 5 with the half-width noise)
MaxSearchesRank == 1

RankDraws ==
    [NarrowDraws EXCEPT
        !.entity = {1, 2},
        !.bad_coin = BOOLEAN,
        !.bad = {[NoNoise EXCEPT !.half = TRUE]},
        !.results_count = FullDraws.results_count,
        !.base_rank = FullDraws.base_rank,
        !.penalty = FullDraws.penalty]

InitRank == InitWith(MaxSearchesRank, {<<1, 5>>}, Env, {Env})

NextRank == SessionStart(RankDraws) \/ Turn(RankDraws) \/ Finish

SpecRank == InitRank /\ [][NextRank]_vars

\* the session clock: the ends of every gap and latency range, from a base
\* time 30 seconds before midnight
MaxSearchesTime == 4

TimeDraws ==
    [NarrowDraws EXCEPT
        !.latency = {1, 10},
        !.gap_zero = {5, 25},
        !.gap_noclick = {8, 35},
        !.gap_click = {10, 45}]

InitTime == InitWith(MaxSearchesTime, {<<5>>}, Env, {Env})

NextTime == SessionStart(TimeDraws) \/ Turn(TimeDraws) \/ Finish

SpecTime == InitTime /\ [][NextTime]_vars

\* identities: two users of the pool and both devices
MaxSearchesIdent == 3

IdentDraws == [NarrowDraws EXCEPT !.user = {1, 2}, !.device = FullDraws.device]

InitIdent == InitWith(MaxSearchesIdent, {<<5>>}, Env, {Env})

NextIdent == SessionStart(IdentDraws) \/ Turn(IdentDraws) \/ Finish

SpecIdent == InitIdent /\ [][NextIdent]_vars

\* two executions with the same seed and counts: the rerun in the same
\* environment, at a later wall-clock time, or with other uuid4 values
MaxSearchesPair == 2

LaterEnv == [Env EXCEPT !.now = @ + 1]

OtherUuidEnv == [Env EXCEPT !.entropy = 5000]

InitPair == InitWith(MaxSearchesPair, {<<5, 1>>}, Env, {Env, LaterEnv, OtherUuidEnv})

PairDraws == [NarrowDraws EXCEPT !.content = {1, 2}]

NextPair == SessionStart(PairDraws) \/ Turn(PairDraws) \/ Finish

SpecPair == InitPair /\ [][NextPair]_vars

\* query text: a title of kanji and kana with romaji and kana aliases (seed
\* entity 5) and a romaji title with a kanji and katakana artist (seed entity
\* 1); the perturber with every gate but the half-width one, or with the
\* half-width gate alone; reformulation with the last clarifier; sessions
\* drawn at one or two turns, a turn with results ends in a click
MaxSearchesText == 2

TextDraws ==
    [NarrowDraws EXCEPT
        !.turns = {1, 2},
        !.entity = {1, 2},
        !.alias_coin = BOOLEAN,
        !.bad_coin = BOOLEAN,
        !.bad = { [ spaces |-> TRUE, punct |-> TRUE, punct_choice |-> 1, recase |-> TRUE,
                    case_coins |-> "odd_upper", half |-> FALSE, half_choice |-> 1 ],
                  [NoNoise EXCEPT !.half = TRUE, !.half_choice = 2] },
        !.reformulate = BOOLEAN,
        !.clarifier = {5},
        !.noclick_u = {99}]

InitText == InitWith(MaxSearchesText, {<<5, 1>>}, Env, {Env})

NextText == SessionStart(TextDraws) \/ Turn(TextDraws) \/ Finish

SpecText == InitText /\ [][NextText]_vars

\* reformulation: the coin of line 328 with both outcomes, after every turn
\* outcome, over several sessions
MaxSearchesReform == 4

ReformDraws == [NarrowDraws EXCEPT !.reformulate = BOOLEAN]

InitReform == InitWith(MaxSearchesReform, {<<5>>}, Env, {Env})

NextReform == SessionStart(ReformDraws) \/ Turn(ReformDraws) \/ Finish

SpecReform == InitReform /\ [][NextReform]_vars

\* the zero-result draw: every combination of the romaji flag, the half-width
\* flag and the ambiguous-keyword match (seed entities 6, 9 and 10: the title
\* and the first alias of each, with and without the half-width noise),
\* against the draws on both sides of every probability these give; a turn
\* with results ends in a click, sessions are drawn at one or two turns
MaxSearchesZero == 1

ZeroDraws ==
    [NarrowDraws EXCEPT
        !.turns = {1, 2},
        !.entity = {1, 2, 3},
        !.alias_coin = BOOLEAN,
        !.pattern = {3},
        !.bad_coin = BOOLEAN,
        !.bad = {[NoNoise EXCEPT !.half = TRUE]},
        !.zero_u = {4, 5, 7, 8, 11, 12, 14, 15, 17, 18, 21, 22, 24, 25},
        !.results_count = FullDraws.results_count,
        !.noclick_u = {99}]

InitZero == InitWith(MaxSearchesZero, {<<6, 9, 10>>}, Env, {Env})

NextZero == SessionStart(ZeroDraws) \/ Turn(ZeroDraws) \/ Finish

SpecZero == InitZero /\ [][NextZero]_vars

\* the no-click draw: queries with and without romaji (seed entity 5: the
\* title, the alias 'demon slayer'), with and without a marker (the first two
\* clarifiers), a results_count of 1 and one above, against the draws on
\* both sides of every probability these give; sessions are drawn at one or
\* two turns
MaxSearchesNoClick == 2

NoClickDraws ==
    [NarrowDraws EXCEPT
        !.turns = {1, 2},
        !.alias_coin = BOOLEAN,
        !.alias = {2},
        !.reformulate = BOOLEAN,
        !.clarifier = {1, 2},
        !.results_count = {1, 3},
        !.noclick_u = {19, 20, 24, 25, 27, 28, 29, 30, 32, 33, 37, 38}]

InitNoClick == InitWith(MaxSearchesNoClick, {<<5>>}, Env, {Env})

NextNoClick == SessionStart(NoClickDraws) \/ Turn(NoClickDraws) \/ Finish

SpecNoClick == InitNoClick /\ [][NextNoClick]_vars

\* make_figures.main from every working directory of FileSystems; the
\* generator does not run
InitFigures ==
    /\ InitSim(1, {<<5>>}, Env, {Env})
    /\ fs \in FileSystems
    /\ fig_pc = "mkdir"
    /\ fig_error = "none"

NextFigures ==
    \/ MakeFigDir
    \/ CheckRequired
    \/ plot_zero_results_by_script_flags
    \/ plot_top_bad_queries_no_click
    \/ PrintFigures

SpecFigures == InitFigures /\ [][NextFigures]_vars

(***************************************************************************)
(* Properties                                                              *)
(***************************************************************************)

Searches == 1..Len(search_rows)
Clicks == 1..Len(click_rows)

\* the search rows a click row refers to
Owners(c) == {s \in Searches : search_rows[s].event_id = click_rows[c].event_id}

\* the search rows of a session
SessionRows(sid) == {s \in Searches : search_rows[s].session_id = sid}

Started == uuids > Len(catalog_internal) + UserPoolSize
Ended == pc \in {"returned", "raised"}

\* a step that emits a search row with results_count 0
ZeroStep ==
    /\ Len(search_rows') = Len(search_rows) + 1
    /\ search_rows'[Len(search_rows')].results_count = 0

\* C2: no click row refers to a search row with results_count 0, and the
\* step that emits such a search row emits no click row and moves the
\* session clock forward
C2_NoClickOnZeroResults ==
    /\ [](\A c \in Clicks : \A s \in Owners(c) : search_rows[s].results_count # 0)
    /\ [][ZeroStep => click_rows' = click_rows /\ t' > t]_vars

C2_Witness ==
    /\ \E s \in Searches : search_rows[s].results_count = 0
    /\ \E s \in Searches : search_rows[s].results_count > 0
    /\ click_rows # << >>

\* C3: the loop of simulate_sessions ends, and when it has ended the number
\* of search rows is n_searches
C3_LoopEndsOnBudget ==
    /\ <>Ended
    /\ [](Ended => Len(search_rows) = n_searches)

C3_Witness ==
    /\ Ended
    /\ Len(search_rows) = n_searches
    /\ n_searches >= 3
    /\ \E a, b \in Searches : search_rows[a].session_id # search_rows[b].session_id

\* C4: every session has between 1 and 4 search rows: at any time no
\* session_id is on more than 4 rows, and whenever the for loop is not
\* running the session just run has exactly k rows, 1 <= k <= 4
C4_SessionSize ==
    /\ \A s \in Searches : Cardinality(SessionRows(search_rows[s].session_id)) \in 1..4
    /\ (Started /\ pc # "for") =>
          /\ k \in 1..4
          /\ Cardinality(SessionRows(session_id)) = k

C4_Witness ==
    /\ Ended
    /\ \E s \in Searches : Cardinality(SessionRows(search_rows[s].session_id)) = 4
    /\ k < drawn_turns

\* C7 (as claimed): simulate_sessions never raises
C7_NeverRaises == pc # "raised"

\* C9: no two click rows carry the same event_id, and there are at most as
\* many click rows as search rows with results_count > 0
C9_OneClickPerSearch ==
    /\ \A a, b \in Clicks : a # b => click_rows[a].event_id # click_rows[b].event_id
    /\ Len(click_rows) <= Cardinality({s \in Searches : search_rows[s].results_count > 0})

C9_Witness ==
    /\ Len(click_rows) >= 2
    /\ \E a, b \in Clicks : a # b /\ click_rows[a].session_id = click_rows[b].session_id
    /\ Len(click_rows) < Cardinality({s \in Searches : search_rows[s].results_count > 0})

\* the latest rows
LastSearch == search_rows[Len(search_rows)]
LastClick == click_rows[Len(click_rows)]

\* C1: every click row refers to a search row, and its rank is between 1
\* and that row's results_count
C1_RankWithinResults ==
    \A c \in Clicks :
        /\ Owners(c) # {}
        /\ \A s \in Owners(c) :
              1 <= click_rows[c].rank /\ click_rows[c].rank <= search_rows[s].results_count

\* a click whose drawn rank was cut down to results_count
C1_Witness ==
    /\ drawn.base_rank > 0
    /\ LastClick.event_id = LastSearch.event_id
    /\ LastClick.rank = LastSearch.results_count
    /\ LastClick.rank < drawn.base_rank

\* the rank of a click turn with drawn base rank b, penalty p, results
\* count r, when the sum b + p is capped at cap before the clamp
RankFrom(b, p, r, flagged, cap) ==
    IF flagged THEN Max(1, Min(Min(cap, b + p), r)) ELSE Max(1, Min(b, r))

\* the latest turn was a click turn and emitted rank RankFrom(..., cap)
ClickTurnRank(cap) ==
    drawn.base_rank > 0 =>
        /\ LastClick.event_id = LastSearch.event_id
        /\ (LastSearch.has_romaji = 1 \/ LastSearch.has_halfwidth_kana = 1)
              => drawn.penalty \in 1..3
        /\ LastClick.rank =
              RankFrom(drawn.base_rank, drawn.penalty, LastSearch.results_count,
                       LastSearch.has_romaji = 1 \/ LastSearch.has_halfwidth_kana = 1, cap)

\* C8 (as claimed): rank = max(1, min(b + p, r)) when a flag is set, the sum
\* clamped only to [1, r]; max(1, min(b, r)) otherwise
C8_RankSumClampedOnly == ClickTurnRank(10 + 3)

\* C8 (amended): rank = max(1, min(min(10, b + p), r)) when a flag is set:
\* the sum is first capped at 10; max(1, min(b, r)) otherwise
C8_RankSumCappedAtTen == ClickTurnRank(10)

\* b = 10, p = 3, r = 25 gives rank 10
C8_Witness ==
    /\ drawn.base_rank = 10
    /\ drawn.penalty = 3
    /\ LastSearch.results_count = 25
    /\ LastSearch.has_halfwidth_kana = 1
    /\ LastClick.rank = 10

\* a is not after b, as isoformat strings
NotAfter(a, b) == a = b \/ IsoBefore(a, b)

\* C5: within a session the search rows' timestamps never decrease in
\* emission order, and every click row's timestamp is strictly after the
\* timestamp of the search row it refers to
C5_TimestampsOrdered ==
    /\ \A a, b \in Searches :
          (a < b /\ search_rows[a].session_id = search_rows[b].session_id)
             => NotAfter(search_rows[a].ts, search_rows[b].ts)
    /\ \A c \in Clicks : \A s \in Owners(c) :
          IsoBefore(search_rows[s].ts, click_rows[c].ts)

\* a session of four turns, the first three a zero-result, a no-click and a
\* click turn, that runs over midnight
C5_Witness ==
    /\ Len(search_rows) = 4
    /\ \A s \in Searches : search_rows[s].session_id = search_rows[1].session_id
    /\ search_rows[1].results_count = 0
    /\ search_rows[2].results_count > 0
    /\ Len(click_rows) = 2
    /\ click_rows[1].event_id = search_rows[3].event_id
    /\ click_rows[2].event_id = search_rows[4].event_id
    /\ search_rows[1].ts[1] < search_rows[4].ts[1]

\* the three tables a run hands to the serializer
Tables(catalog, searches, clicks) ==
    [ content_catalog |-> [j \in 1..Len(catalog) |->
                              [ content_id |-> catalog[j].content_id, type |-> catalog[j].type,
                                title |-> catalog[j].title,
                                artist_or_show |-> catalog[j].artist_or_show ]],
      search_events |-> searches,
      click_events |-> clicks ]

\* C6 (as claimed): a second run with the same seed and counts returns the
\* same three tables, field for field
C6_Deterministic ==
    pc = "returned" =>
        Tables(rerun.catalog_internal, rerun.search_rows, rerun.click_rows)
            = Tables(catalog_internal, search_rows, click_rows)

\* C10: the search rows of one session_id carry one user_id and one device,
\* every click row carries the session_id of the search row it refers to,
\* and a session never starts under a session_id already on a row
C10_SessionIdentity ==
    /\ [](\A a, b \in Searches :
            search_rows[a].session_id = search_rows[b].session_id
               => /\ search_rows[a].user_id = search_rows[b].user_id
                  /\ search_rows[a].device = search_rows[b].device)
    /\ [](\A c \in Clicks :
            /\ Owners(c) # {}
            /\ \A s \in Owners(c) : click_rows[c].session_id = search_rows[s].session_id)
    /\ [][(pc = "while" /\ pc' = "for")
            => \A s \in Searches : search_rows[s].session_id # session_id']_vars

\* two sessions of different users and devices, one of them with two turns
\* and a click
C10_Witness ==
    /\ Len(search_rows) = 3
    /\ search_rows[1].session_id = search_rows[2].session_id
    /\ search_rows[3].session_id # search_rows[1].session_id
    /\ search_rows[3].user_id # search_rows[1].user_id
    /\ search_rows[3].device # search_rows[1].device
    /\ \E c \in Clicks : click_rows[c].event_id = search_rows[2].event_id

\* a step that starts a session
SessionStep == pc = "while" /\ pc' = "for"

\* C16: a session runs fewer turns than line 305 drew only when that uses up
\* the budget, so only the last session is cut short: when a further session
\* starts, the one before it ran exactly the number of turns drawn for it
C16_OnlyLastSessionCut ==
    /\ [](k <= drawn_turns /\ (k < drawn_turns => searches_left = 0))
    /\ [][(SessionStep /\ Started)
            => /\ k = drawn_turns
               /\ Cardinality(SessionRows(session_id)) = drawn_turns]_vars

\* a cut last session after a session that ran all its drawn turns
C16_Witness ==
    /\ Ended
    /\ k < drawn_turns
    /\ Cardinality(SessionRows(session_id)) = k
    /\ \E s \in Searches : search_rows[s].session_id # session_id

\* C18: searches_left is never negative; the rows emitted, the turns the
\* running session still has to run and searches_left add up to n_searches;
\* and searches_left changes only when a session starts, going down by that
\* session's k
C18_BudgetAccounting ==
    /\ [](/\ searches_left >= 0
          /\ Len(search_rows) + (k - i) + searches_left = n_searches)
    /\ [][/\ searches_left' <= searches_left
          /\ searches_left' # searches_left
               => SessionStep /\ searches_left' = searches_left - k']_vars

\* in the middle of a second session, with budget left for a third
C18_Witness ==
    /\ pc = "for"
    /\ i >= 1
    /\ k - i >= 1
    /\ searches_left >= 1
    /\ Len(search_rows) > i

\* C19: within a session a click row's timestamp is not after the timestamp
\* of any later search row, so the rows of a session, in emission order
\* (search, its click, next search), have timestamps that never decrease
C19_ClickBeforeNextSearch ==
    \A c \in Clicks : \A s \in Owners(c) :
        /\ NotAfter(search_rows[s].ts, click_rows[c].ts)
        /\ \A s2 \in Searches :
              (s2 > s /\ search_rows[s2].session_id = search_rows[s].session_id)
                 => NotAfter(click_rows[c].ts, search_rows[s2].ts)

\* a click with the longest latency and the shortest gap: it carries the
\* timestamp of the next search of its session
C19_Witness ==
    \E c \in Clicks : \E s \in Owners(c) :
        /\ s < Len(search_rows)
        /\ search_rows[s + 1].session_id = search_rows[s].session_id
        /\ search_rows[s + 1].ts = click_rows[c].ts

\* every query sample_query_from_entity can return for a seed entity
CatalogQueries ==
    UNION { SampleQueries(SeedEntities[e],
                          [alias_coin |-> BOOLEAN, alias |-> 1..3, pattern |-> 1..3]) :
            e \in 1..Len(SeedEntities) }

\* no composed query, with or without a clarifier, has a half-width kana
CatalogTextFullWidth ==
    \A q \in CatalogQueries :
        /\ has_halfwidth_kana(q) = 0
        /\ \A c \in 1..Len(Clarifiers) : has_halfwidth_kana(q \o Clarifiers[c]) = 0

\* C11: has_halfwidth_kana is 0 on the search row of every turn in which the
\* half-width noise step of make_bad_variant did not run, so on every row of
\* a run in which make_bad_variant is never called: no query composed from a
\* seed entity has a half-width kana character, and no clarifier adds one
\* (a fact of the seed entities alone, stated for the start of a run)
C11_HalfwidthOnlyFromPerturber ==
    /\ search_rows = << >> => CatalogTextFullWidth
    /\ (search_rows # << >> /\ ~(drawn.perturbed /\ drawn.half))
          => LastSearch.has_halfwidth_kana = 0

\* a session of two unperturbed turns, the second one a reformulated query
\* with kana, and no row with the half-width flag
C11_Witness ==
    /\ i = 2
    /\ ~drawn.perturbed
    /\ drawn.reformulated
    /\ LastSearch.has_kana = 1
    /\ \A s \in Searches : search_rows[s].has_halfwidth_kana = 0
    /\ search_rows[Len(search_rows) - 1].query_raw \in CatalogQueries

\* C12: the first turn of a session draws no reformulation coin and appends
\* no clarifier, every later turn draws the coin, whatever the outcome of
\* the turn before it; the previous normalized query is None when a session
\* reaches its first turn and is the query_norm of the latest row after that
C12_FirstTurnNeverReformulated ==
    /\ (pc = "for" /\ i = 0) => last_query_norm = << >>
    /\ (pc = "for" /\ i >= 1) => last_query_norm = <<LastSearch.query_norm>>
    /\ i = 1 => (~drawn.flipped /\ ~drawn.reformulated)
    /\ i >= 2 => drawn.flipped

\* the second turn of a later session, reformulated after a zero-result turn
C12_Witness ==
    /\ i = 2
    /\ drawn.reformulated
    /\ search_rows[Len(search_rows) - 1].results_count = 0
    /\ search_rows[1].session_id # session_id

\* C13: on every search row query_norm is the normalization of query_raw,
\* the four flags are the classifiers of query_raw and query_len is its
\* length; the query_norm of a reformulated turn contains the clarifier
C13_DerivedFromFinalQuery ==
    /\ \A s \in Searches :
          LET row == search_rows[s]
          IN  /\ row.query_norm = normalize_query(row.query_raw)
              /\ row.has_kanji = has_kanji(row.query_raw)
              /\ row.has_kana = has_kana(row.query_raw)
              /\ row.has_romaji = has_romaji(row.query_raw)
              /\ row.has_halfwidth_kana = has_halfwidth_kana(row.query_raw)
              /\ row.query_len = Len(row.query_raw)
    /\ (search_rows # << >> /\ drawn.reformulated)
          => \E c \in 1..Len(Clarifiers) : Contains(LastSearch.query_norm, Tail(Clarifiers[c]))

\* a perturbed and reformulated turn whose query_norm differs from its
\* query_raw and carries the clarifier
C13_Witness ==
    /\ search_rows # << >>
    /\ drawn.perturbed
    /\ drawn.reformulated
    /\ LastSearch.query_norm # LastSearch.query_raw
    /\ Contains(LastSearch.query_norm, Tail(Clarifiers[5]))
    /\ Contains(LastSearch.query_raw, <<32, 32>>)

\* p_zero of the spec's formula, in hundredths, from the columns of a row
ZeroProbability(row) ==
    5 + 7 * row.has_romaji + 10 * row.has_halfwidth_kana
      + (IF AmbiguousKeyword(row.query_raw) THEN 3 ELSE 0)

\* C14: the zero-result probability of a row is 5 + 7 (romaji) + 10
\* (half-width kana) + 3 (ambiguous keyword) hundredths, between 5 and 25;
\* results_count is 0 exactly when the draw is below it and else one of
\* 1, 3, 5, 10, 25
C14_ZeroProbability ==
    /\ \A s \in Searches :
          /\ ZeroProbability(search_rows[s]) \in 5..25
          /\ search_rows[s].results_count \in {0, 1, 3, 5, 10, 25}
    /\ search_rows # << >>
          => (LastSearch.results_count = 0 <=> drawn.zero_u < ZeroProbability(LastSearch))

\* a zero-result turn on the draw just below 0.08: a query with no flag that
\* matches the ambiguous pattern
C14_Witness ==
    /\ search_rows # << >>
    /\ LastSearch.results_count = 0
    /\ drawn.zero_u = 7
    /\ LastSearch.has_romaji = 0
    /\ LastSearch.has_halfwidth_kana = 0

\* p_no_click of the spec's formula, in hundredths, from the columns of a row
NoClickProbability(row) ==
    25 + 8 * row.has_romaji - (IF row.results_count <= 1 THEN 5 ELSE 0)
       + (IF \/ Contains(row.query_raw, <<27468, 35422>>)
             \/ Contains(row.query_raw, <<20027, 38988, 27468>>)
          THEN 5 ELSE 0)

\* C15: a turn with results_count 0 makes no no-click draw and emits no
\* click; on a turn with results the no-click probability is 25 + 8 (romaji)
\* - 5 (results_count <= 1) + 5 (marker) hundredths, between 20 and 38, and
\* the turn emits its click exactly when the draw is not below it
C15_NoClickProbability ==
    /\ \A s \in Searches :
          search_rows[s].results_count > 0 => NoClickProbability(search_rows[s]) \in 20..38
    /\ search_rows # << >> =>
          LET clicked == \E c \in Clicks : click_rows[c].event_id = LastSearch.event_id
          IN  IF LastSearch.results_count = 0
              THEN drawn.noclick_u = 100 /\ ~clicked
              ELSE /\ drawn.noclick_u \in 0..99
                   /\ clicked <=> ~(drawn.noclick_u < NoClickProbability(LastSearch))

\* a turn on a single result, romaji and a theme-song marker, clicked on the
\* draw at 0.33
C15_Witness ==
    /\ search_rows # << >>
    /\ LastSearch.results_count = 1
    /\ LastSearch.has_romaji = 1
    /\ Contains(LastSearch.query_raw, <<20027, 38988, 27468>>)
    /\ drawn.noclick_u = 33
    /\ \E c \in Clicks : click_rows[c].event_id = LastSearch.event_id

\* a figure file this run wrote
Written == {j \in 1..2 : fs[Figures[j]] = "figure"}

\* a required metrics file is not there
AnyMissing == \E j \in 1..2 : fs[required[j]] = "absent"

\* C17 as stated: whenever a required file is missing the run ends raised
\* with FileNotFoundError, no plot runs and no figure is written; a figure is
\* written only when every required file exists
C17_MissingRaisesFileNotFound ==
    /\ AnyMissing
          => /\ Written = {}
             /\ fig_pc \in {"mkdir", "check", "raised"}
             /\ fig_pc = "raised" => fig_error = "FileNotFoundError"
    /\ Written # {} => ~AnyMissing

\* C17, amended: whenever a required file is missing no plot runs and no
\* figure is written, and the run ends raised: with FileNotFoundError when
\* line 79 left FIG_DIR a directory, else with the error of line 79; a
\* figure is written only when every required file exists
C17_MissingAbortsBeforePlots ==
    /\ AnyMissing
          => /\ Written = {}
             /\ fig_pc \in {"mkdir", "check", "raised"}
             /\ fig_pc = "raised"
                   => IF fs[FIG_DIR] = "dir"
                      THEN fig_error = "FileNotFoundError"
                      ELSE fig_error \in {"FileExistsError", "NotADirectoryError"}
    /\ Written # {} => ~AnyMissing

\* the second required file alone is missing: the run raised
\* FileNotFoundError and left the figure of an earlier run as it was
C17_Witness ==
    /\ fig_pc = "raised"
    /\ fig_error = "FileNotFoundError"
    /\ fs[required[2]] = "absent"
    /\ fs[required[1]] = "metrics"
    /\ fs[Figures[1]] = "other"

====
